---- MODULE Spec2Model ----
(***************************************************************************)
(* A model of ogg-explorer (src/main.rs): the page scan of get_packets,    *)
(* the hand-over of its result to the App in main, the codec classifier    *)
(* identify_packet_data_by_magic and select_bitstream_with_video.          *)
(*                                                                         *)
(* A file is a sequence of bytes (0..255).  Offsets are 0-based as in the  *)
(* source; TLA+ sequences are 1-based, so the byte at offset o is f[o+1].  *)
(***************************************************************************)
EXTENDS Integers, Sequences, FiniteSets, TLC

VARIABLES
    in_video,            \* the bytes of the input file (File, in_video_meta.len() = Len)
    next_header_start,   \* get_packets: the cursor
    headers,             \* get_packets: Vec<PageHeader>, each the 27 header bytes
    pc,                  \* "scan" | "returned" | "panicked" | "ui"
    err,                 \* the io::ErrorKind the failed unwrap() carried, or "none"
    app,                 \* main: App.page_headers.items, or None before App::new
    visited,             \* history: the cursor at the start of every iteration
    seg_sums,            \* history: segments_lengths of every completed iteration
    reads,               \* history: number of read_exact calls made
    shape,               \* how the input file was built (never read by the program)
    other,               \* a second, independent run of get_packets (SpecPair)
    pck_data,            \* identify_packet_data_by_magic: the argument
    format,              \* identify_packet_data_by_magic: the returned Option
    mpc,                 \* "idle" | "call" | "done"
    bitstreams,          \* select_bitstream_with_video: serial -> Vec<Packet>
    order,               \* the order in which the HashMap yields its keys
    idx,                 \* number of loop iterations of the selector completed
    select_bitstream,    \* the selector's local Option<Vec<Packet>>
    spc                  \* "idle" | "loop" | "returned" | "panicked"

scanVars == <<in_video, next_header_start, headers, pc, err, app, visited,
              seg_sums, reads, shape>>
magicVars == <<pck_data, format, mpc>>
selectVars == <<bitstreams, order, idx, select_bitstream, spc>>
vars == <<scanVars, other, magicVars, selectVars>>

\* Option<T>: None is the empty sequence, Some(x) the one-element sequence.
None == <<>>

Some(x) == <<x>>

(***************************************************************************)
(* Bounds of the model.                                                    *)
(***************************************************************************)
MaxPages == 3        \* pages in a generated file
MaxTotalSegs == 2    \* lacing values in a generated file, all pages together
MaxCut == 2          \* bytes cut off the end of a generated file
MaxExtra == 2        \* stray bytes appended to a generated file
MaxTail == 2         \* bytes that follow a (partial) signature in a classifier input
MaxStreams == 2      \* logical bitstreams in a grouping
MaxMorePackets == 1  \* packets of a bitstream after its first

(***************************************************************************)
(* Program constants.                                                      *)
(***************************************************************************)
HeaderLen == 27

----------------------------------------------------------------------------
(***************************************************************************)
(* PageHeader: the 27 raw bytes and the accessors the scan and main use.   *)
(***************************************************************************)
capture_pattern(bytes) == SubSeq(bytes, 1, 4)

bitstream_serial_number(bytes) == SubSeq(bytes, 15, 18)

page_sequence_number(bytes) == SubSeq(bytes, 19, 22)

page_segments(bytes) == SubSeq(bytes, 27, 27)

page_segments_count(bytes) == page_segments(bytes)[1]

page_sequence_number_parsed(bytes) ==
    LET input == page_sequence_number(bytes)
    IN  input[1] + 256 * input[2] + 65536 * input[3] + 16777216 * input[4]

\* Mutant: a plain read(), which returns what is left and leaves the rest of
\* the buffer zero.
read_lenient(file, pos, n) ==
    IF pos + n <= Len(file)
    THEN [ok |-> TRUE, buf |-> SubSeq(file, pos + 1, pos + n), pos |-> pos + n]
    ELSE [ok |-> TRUE,
          buf |-> [i \in 1..n |-> IF pos + i <= Len(file) THEN file[pos + i] ELSE 0],
          pos |-> IF pos > Len(file) THEN pos ELSE Len(file)]

(***************************************************************************)
(* Read::read_exact on a file positioned at offset pos: n bytes or the     *)
(* error UnexpectedEof.  A seek beyond the end succeeds; the read fails.   *)
(***************************************************************************)
read_exact(file, pos, n) ==
    IF pos + n <= Len(file)
    THEN [ok |-> TRUE, buf |-> SubSeq(file, pos + 1, pos + n), pos |-> pos + n]
    ELSE [ok |-> FALSE, buf |-> <<>>, pos |-> pos]

\* Mutant: the lacing values are summed in a u8.
RECURSIVE read_segments_u8(_, _, _)
read_segments_u8(file, pos, count) ==
    IF count = 0
    THEN [ok |-> TRUE, sum |-> 0, pos |-> pos, reads |-> 0]
    ELSE LET segment_length == read_exact(file, pos, 1)
         IN  IF ~segment_length.ok
             THEN [ok |-> FALSE, sum |-> 0, pos |-> pos, reads |-> 1]
             ELSE LET rest == read_segments_u8(file, segment_length.pos, count - 1)
                  IN  [ok |-> rest.ok,
                       sum |-> (segment_length.buf[1] + rest.sum) % 256,
                       pos |-> rest.pos,
                       reads |-> 1 + rest.reads]

(***************************************************************************)
(* The iterator chain of lines 243-251: count one-byte read_exact calls,   *)
(* each unwrapped, their values summed as u64.                             *)
(***************************************************************************)
RECURSIVE read_segments(_, _, _)
read_segments(file, pos, count) ==
    IF count = 0
    THEN [ok |-> TRUE, sum |-> 0, pos |-> pos, reads |-> 0]
    ELSE LET segment_length == read_exact(file, pos, 1)
         IN  IF ~segment_length.ok
             THEN [ok |-> FALSE, sum |-> 0, pos |-> pos, reads |-> 1]
             ELSE LET rest == read_segments(file, segment_length.pos, count - 1)
                  IN  [ok |-> rest.ok,
                       sum |-> segment_length.buf[1] + rest.sum,
                       pos |-> rest.pos,
                       reads |-> 1 + rest.reads]

\* Mutant: the segment table's own length is left out of the step.
advance_without_table(start, count, segments_lengths) ==
    start + HeaderLen + segments_lengths

\* Mutant: the payload is left out of the step.
advance_without_payload(start, count, segments_lengths) ==
    start + HeaderLen + count

(***************************************************************************)
(* The new cursor of line 253.                                             *)
(***************************************************************************)
advance(start, count, segments_lengths) ==
    start + HeaderLen + count + segments_lengths

\* Mutant: the loop runs only while the cursor is before the end.
loop_continues_before_end(len, start) == len > start

(***************************************************************************)
(* The loop condition of line 236.                                         *)
(***************************************************************************)
loop_continues(len, start) == len # start

(***************************************************************************)
(* One iteration of the while loop of get_packets on file, from cursor     *)
(* start: seek, read the header, read the segment table, advance.          *)
(***************************************************************************)
loop_body(file, start) ==
    LET header_bytes == read_exact(file, start, HeaderLen)
    IN  IF ~header_bytes.ok
        THEN [ok |-> FALSE, header |-> <<>>, segments_lengths |-> 0,
              next |-> start, reads |-> 1]
        ELSE LET count == page_segments_count(header_bytes.buf)
                 segs == read_segments(file, header_bytes.pos, count)
             IN  IF ~segs.ok
                 THEN [ok |-> FALSE, header |-> <<>>, segments_lengths |-> 0,
                       next |-> start, reads |-> 1 + segs.reads]
                 ELSE [ok |-> TRUE, header |-> header_bytes.buf,
                       segments_lengths |-> segs.sum,
                       next |-> advance(start, count, segs.sum),
                       reads |-> 1 + segs.reads]

----------------------------------------------------------------------------
(***************************************************************************)
(* Input files.  A file is built from a list of segment tables, one per    *)
(* page; every payload byte is fill; page number bad (0: none) carries a   *)
(* wrong capture pattern; delta < 0 cuts -delta bytes off the end and      *)
(* delta > 0 appends delta stray zero bytes.                               *)
(***************************************************************************)
CapturePattern == <<79, 103, 103, 83>>

BadCapture == <<79, 103, 103, 0>>

LacingVals == {0, 10, 255}

FillBytes == {0, 1}

Serial == <<7, 0, 0, 0>>

Zeros(n) == [i \in 1..n |-> 0]

Fill(n, b) == [i \in 1..n |-> b]

RECURSIVE SumSeq(_)
SumSeq(s) == IF s = <<>> THEN 0 ELSE Head(s) + SumSeq(Tail(s))

HeaderOf(i, table, good) ==
    (IF good THEN CapturePattern ELSE BadCapture)
      \o <<0>> \o <<0>> \o Zeros(8) \o Serial
      \o <<(i - 1) % 256, 0, 0, 0>> \o Zeros(4) \o <<Len(table)>>

PageOf(i, table, fill, good) ==
    HeaderOf(i, table, good) \o table \o Fill(SumSeq(table), fill)

RECURSIVE Concat(_, _, _, _)
Concat(tables, i, fill, bad) ==
    IF i > Len(tables) THEN <<>>
    ELSE PageOf(i, tables[i], fill, bad # i) \o Concat(tables, i + 1, fill, bad)

FileOf(s, fill) ==
    LET full == Concat(s.tables, 1, fill, s.bad)
    IN  IF s.delta < 0 THEN SubSeq(full, 1, Len(full) + s.delta)
        ELSE full \o Zeros(s.delta)

Tables(n) == UNION {[1..k -> LacingVals] : k \in 0..n}

RECURSIVE TableLists(_, _)
TableLists(k, n) ==
    IF k = 0 THEN {<<>>}
    ELSE UNION {{<<t>> \o r : r \in TableLists(k - 1, n - Len(t))} : t \in Tables(n)}

Shapes ==
    {[tables |-> ts, bad |-> b, delta |-> d, fill |-> f] :
        ts \in UNION {TableLists(k, MaxTotalSegs) : k \in 0..MaxPages},
        b \in 0..MaxPages, d \in (0 - MaxCut)..MaxExtra, f \in FillBytes}

\* At most one deviation from a well-formed file, and a cut that leaves the
\* start of the last page in place.
ShapeOk(s) ==
    /\ s.bad <= Len(s.tables)
    /\ s.bad # 0 => s.delta = 0
    /\ s.delta < 0 => s.tables # <<>>

----------------------------------------------------------------------------
(***************************************************************************)
(* get_packets and main.                                                   *)
(***************************************************************************)
IdleOther == [in_video |-> <<>>, next_header_start |-> 0, headers |-> <<>>,
              pc |-> "idle", visited |-> <<>>]

IdleMagic == pck_data = <<>> /\ format = None /\ mpc = "idle"

IdleSelect ==
    /\ bitstreams = <<>>
    /\ order = <<>>
    /\ idx = 0
    /\ select_bitstream = None
    /\ spc = "idle"

InitScan ==
    /\ shape \in {s \in Shapes : ShapeOk(s)}
    /\ in_video = FileOf(shape, shape.fill)
    /\ next_header_start = 0
    /\ headers = <<>>
    /\ pc = "scan"
    /\ err = "none"
    /\ app = None
    /\ visited = <<>>
    /\ seg_sums = <<>>
    /\ reads = 0

Init == InitScan /\ other = IdleOther /\ IdleMagic /\ IdleSelect

\* One iteration of the loop at lines 236-255; a failed unwrap() panics.
ScanPage ==
    /\ pc = "scan"
    /\ loop_continues(Len(in_video), next_header_start)
    /\ LET r == loop_body(in_video, next_header_start)
       IN  /\ visited' = Append(visited, next_header_start)
           /\ reads' = reads + r.reads
           /\ IF r.ok
              THEN /\ next_header_start' = r.next
                   /\ headers' = Append(headers, r.header)
                   /\ seg_sums' = Append(seg_sums, r.segments_lengths)
                   /\ UNCHANGED <<pc, err>>
              ELSE /\ pc' = "panicked"
                   /\ err' = "UnexpectedEof"
                   /\ UNCHANGED <<next_header_start, headers, seg_sums>>
    /\ UNCHANGED <<in_video, app, shape, other, magicVars, selectVars>>

\* The loop condition fails: get_packets returns headers (line 257).
ScanReturn ==
    /\ pc = "scan"
    /\ ~loop_continues(Len(in_video), next_header_start)
    /\ pc' = "returned"
    /\ UNCHANGED <<in_video, next_header_start, headers, err, app, visited,
                   seg_sums, reads, shape, other, magicVars, selectVars>>

\* main, lines 318-330: the returned headers become the App's list.
AppNew ==
    /\ pc = "returned"
    /\ app' = Some(headers)
    /\ pc' = "ui"
    /\ UNCHANGED <<in_video, next_header_start, headers, err, visited,
                   seg_sums, reads, shape, other, magicVars, selectVars>>

Next == ScanPage \/ ScanReturn \/ AppNew

Spec == Init /\ [][Next]_vars

----------------------------------------------------------------------------
(***************************************************************************)
(* Two runs of get_packets, one after the other, on two files built from   *)
(* the same shape with different payload bytes.                            *)
(***************************************************************************)
InitPair ==
    /\ InitScan
    /\ \E f \in FillBytes :
          other = [in_video |-> FileOf(shape, f), next_header_start |-> 0,
                   headers |-> <<>>, pc |-> "scan", visited |-> <<>>]
    /\ IdleMagic
    /\ IdleSelect

OtherScanPage ==
    /\ pc \in {"returned", "panicked"}
    /\ other.pc = "scan"
    /\ loop_continues(Len(other.in_video), other.next_header_start)
    /\ LET r == loop_body(other.in_video, other.next_header_start)
           seen == Append(other.visited, other.next_header_start)
       IN  other' = IF r.ok
                    THEN [other EXCEPT !.visited = seen,
                                       !.next_header_start = r.next,
                                       !.headers = Append(other.headers, r.header)]
                    ELSE [other EXCEPT !.visited = seen, !.pc = "panicked"]
    /\ UNCHANGED <<scanVars, magicVars, selectVars>>

OtherScanReturn ==
    /\ pc \in {"returned", "panicked"}
    /\ other.pc = "scan"
    /\ ~loop_continues(Len(other.in_video), other.next_header_start)
    /\ other' = [other EXCEPT !.pc = "returned"]
    /\ UNCHANGED <<scanVars, magicVars, selectVars>>

NextPair == ScanPage \/ ScanReturn \/ OtherScanPage \/ OtherScanReturn

SpecPair == InitPair /\ [][NextPair]_vars

----------------------------------------------------------------------------
(***************************************************************************)
(* identify_packet_data_by_magic.  An operation that can panic returns     *)
(* [panicked |-> TRUE] or [panicked |-> FALSE, value |-> v].               *)
(***************************************************************************)
vorbis_magic == <<1, 118, 111, 114, 98, 105, 115>>

opus_magic == <<79, 112, 117, 115, 72, 101, 97, 100>>

theora_magic == <<128, 116, 104, 101, 111, 114, 97>>

speex_magic == <<83, 112, 101, 101, 120, 32, 32, 32>>

skeleton_magic == <<102, 105, 115, 104, 101, 97, 100, 0>>

Panic == [panicked |-> TRUE, value |-> None]

Returns(v) == [panicked |-> FALSE, value |-> v]

\* slice::starts_with
starts_with(s, prefix) ==
    Len(s) >= Len(prefix) /\ SubSeq(s, 1, Len(prefix)) = prefix

\* Mutant: the first byte alone picks the format.
identify_by_first_byte(data) ==
    IF Len(data) < 1 THEN Returns(None)
    ELSE IF data[1] = 1 THEN Returns(Some(<<Len(vorbis_magic), "Vorbis">>))
    ELSE IF data[1] = 79 THEN Returns(Some(<<Len(opus_magic), "Opus">>))
    ELSE IF data[1] = 128 THEN Returns(Some(<<Len(theora_magic), "Theora">>))
    ELSE IF data[1] = 83 THEN Returns(Some(<<Len(speex_magic), "Speex">>))
    ELSE IF data[1] = 102 THEN Returns(Some(<<Len(speex_magic), "Skeleton">>))
    ELSE Returns(None)

\* Lines 39-68.  The Skeleton arm reports speex_magic.len(), as the source does.
identify_packet_data_by_magic(data) ==
    IF Len(data) < 1 THEN Returns(None)
    ELSE IF data[1] = 1 /\ starts_with(data, vorbis_magic)
         THEN Returns(Some(<<Len(vorbis_magic), "Vorbis">>))
    ELSE IF data[1] = 79 /\ starts_with(data, opus_magic)
         THEN Returns(Some(<<Len(opus_magic), "Opus">>))
    ELSE IF data[1] = 128 /\ starts_with(data, theora_magic)
         THEN Returns(Some(<<Len(theora_magic), "Theora">>))
    ELSE IF data[1] = 83 /\ starts_with(data, speex_magic)
         THEN Returns(Some(<<Len(speex_magic), "Speex">>))
    ELSE IF data[1] = 102 /\ starts_with(data, skeleton_magic)
         THEN Returns(Some(<<Len(speex_magic), "Skeleton">>))
    ELSE Returns(None)

(***************************************************************************)
(* Classifier inputs: a prefix of a signature, some bytes after it, and    *)
(* at most one byte replaced.                                              *)
(***************************************************************************)
Magics == {vorbis_magic, opus_magic, theora_magic, speex_magic, skeleton_magic}

TailBytes == {0, 1, 128}

FirstBytes == {0, 1, 79, 128, 83, 102}

Tails(n) == UNION {[1..k -> TailBytes] : k \in 0..n}

PlainInputs ==
    UNION {{SubSeq(m, 1, k) \o t : k \in 0..Len(m), t \in Tails(MaxTail)} : m \in Magics}

MagicInputs ==
    PlainInputs \cup
    UNION {{[d EXCEPT ![p] = v] : p \in 1..Len(d), v \in FirstBytes} : d \in PlainInputs}

IdleScan ==
    /\ shape = [tables |-> <<>>, bad |-> 0, delta |-> 0, fill |-> 0]
    /\ in_video = <<>>
    /\ next_header_start = 0
    /\ headers = <<>>
    /\ pc = "idle"
    /\ err = "none"
    /\ app = None
    /\ visited = <<>>
    /\ seg_sums = <<>>
    /\ reads = 0
    /\ other = IdleOther

InitMagic ==
    /\ pck_data \in MagicInputs
    /\ format = None
    /\ mpc = "call"
    /\ IdleScan
    /\ IdleSelect

Identify ==
    /\ mpc = "call"
    /\ LET r == identify_packet_data_by_magic(pck_data)
       IN  /\ format' = r.value
           /\ mpc' = IF r.panicked THEN "panicked" ELSE "done"
    /\ UNCHANGED <<pck_data, scanVars, other, selectVars>>

SpecMagic == InitMagic /\ [][Identify]_vars

----------------------------------------------------------------------------
(***************************************************************************)
(* select_bitstream_with_video.  A packet is its data and the serial of    *)
(* its stream; the HashMap yields its entries in the order `order`.        *)
(***************************************************************************)
Packet(d, s) == [data |-> d, stream_serial |-> s]

FirstDatas ==
    {<<>>, theora_magic, theora_magic \o <<1>>, SubSeq(theora_magic, 1, 3), vorbis_magic}

BitstreamsOf(s) ==
    {<<>>} \cup
    {<<Packet(d, s)>> \o [i \in 1..n |-> Packet(<<0>>, s)] :
        d \in FirstDatas, n \in 0..MaxMorePackets}

Groupings ==
    UNION {{g \in [S -> UNION {BitstreamsOf(s) : s \in S}] :
               \A s \in S : g[s] \in BitstreamsOf(s)} : S \in SUBSET (1..MaxStreams)}

Orders(S) ==
    {o \in [1..Cardinality(S) -> S] : \A i, j \in 1..Cardinality(S) : o[i] = o[j] => i = j}

\* bitstream[0]: Vec indexing, which panics on an empty Vec.
first_packet(bitstream) ==
    IF Len(bitstream) = 0 THEN Panic ELSE Returns(bitstream[1])

InitSelect ==
    /\ bitstreams \in Groupings
    /\ order \in Orders(DOMAIN bitstreams)
    /\ idx = 0
    /\ select_bitstream = None
    /\ spc = "loop"
    /\ IdleScan
    /\ IdleMagic

\* One iteration of the for loop, lines 74-81.
SelectIter ==
    /\ spc = "loop"
    /\ idx < Len(order)
    /\ LET bitstream == bitstreams[order[idx + 1]]
           first == first_packet(bitstream)
       IN  IF first.panicked
           THEN /\ spc' = "panicked"
                /\ UNCHANGED <<idx, select_bitstream>>
           ELSE LET f == identify_packet_data_by_magic(first.value.data)
                IN  /\ spc' = IF f.panicked THEN "panicked" ELSE "loop"
                    /\ idx' = idx + 1
                    /\ select_bitstream' =
                          IF ~f.panicked /\ f.value # None /\ f.value[1][2] = "Theora"
                          THEN Some(bitstream)
                          ELSE select_bitstream
    /\ UNCHANGED <<bitstreams, order, scanVars, other, magicVars>>

\* The loop is over: select_bitstream is returned, line 82.
SelectReturn ==
    /\ spc = "loop"
    /\ idx = Len(order)
    /\ spc' = "returned"
    /\ UNCHANGED <<bitstreams, order, idx, select_bitstream, scanVars, other, magicVars>>

NextSelect == SelectIter \/ SelectReturn

SpecSelect == InitSelect /\ [][NextSelect]_vars

----------------------------------------------------------------------------
(***************************************************************************)
(* Properties of the page scan.                                            *)
(***************************************************************************)
PageLen(table) == HeaderLen + Len(table) + SumSeq(table)

RECURSIVE PageStart(_, _)
PageStart(tables, i) ==
    IF i <= 1 THEN 0 ELSE PageStart(tables, i - 1) + PageLen(tables[i - 1])

\* The cursor the i-th iteration left behind.
CursorAfter(i) == IF i < Len(visited) THEN visited[i + 1] ELSE next_header_start

RECURSIVE StepsTotal(_)
StepsTotal(i) ==
    IF i = 0 THEN 0
    ELSE StepsTotal(i - 1) + HeaderLen + headers[i][27] + seg_sums[i]

\* C1: on a well-formed file (a concatenation of pages, nothing cut off and
\* nothing appended) the scan starts at offset 0, emits the header of every
\* page once and in file order, never fails, and returns with the cursor equal
\* to the file length, the steps 27 + N + payload adding up to that length.
C1_ScanCoversWellFormedFile ==
    shape.delta = 0 =>
        /\ pc # "panicked"
        /\ visited = <<>> => next_header_start = 0
        /\ visited # <<>> => visited[1] = 0
        /\ Len(headers) <= Len(shape.tables)
        /\ Len(visited) = Len(headers)
        /\ \A i \in 1..Len(headers) :
              /\ headers[i] = HeaderOf(i, shape.tables[i], shape.bad # i)
              /\ visited[i] = PageStart(shape.tables, i)
        /\ next_header_start = PageStart(shape.tables, Len(headers) + 1)
        /\ pc \in {"returned", "ui"} =>
              /\ Len(headers) = Len(shape.tables)
              /\ next_header_start = Len(in_video)
              /\ StepsTotal(Len(headers)) = Len(in_video)

C1_Witness ==
    /\ shape.delta = 0
    /\ pc = "returned"
    /\ Len(headers) = 3
    /\ \E i \in 1..3 : seg_sums[i] > 0

\* C2: a file whose last page is cut short (its payload, its segment table or
\* its header), or that ends in fewer than 27 stray bytes, never makes the scan
\* return: the loop goes on until a read fails with UnexpectedEof, at the
\* latest in the iteration after the last page.
C2_TruncatedInputFails ==
    /\ pc = "panicked" => err = "UnexpectedEof"
    /\ next_header_start > Len(in_video) => pc \in {"scan", "panicked"}
    /\ shape.delta # 0 =>
          /\ pc \in {"scan", "panicked"}
          /\ app = None
          /\ pc = "scan" => loop_continues(Len(in_video), next_header_start)
          /\ Len(visited) <= Len(shape.tables) + 1
          /\ Len(visited) = Len(shape.tables) + 1 => pc = "panicked"

C2_Witness ==
    /\ shape.delta < 0
    /\ pc = "panicked"
    /\ next_header_start > Len(in_video)
    /\ Len(headers) = Len(shape.tables)

\* C6: every page header the scan emits starts with the capture pattern; a
\* page that does not is reported as InvalidPage and the scan stops there.
C6_BadCaptureAborts ==
    /\ \A i \in 1..Len(headers) : capture_pattern(headers[i]) = CapturePattern
    /\ (shape.bad # 0 /\ Len(visited) >= shape.bad) => err = "InvalidPage"

\* C7: when the scan fails after k pages were read completely, those k
\* headers are what the App holds for display.
C7_PartialResultKept ==
    (pc = "panicked" /\ Len(headers) >= 1) => app = Some(headers)

\* C8: every completed step from offset c, with N the byte at c + 26 and the
\* lacing values the N bytes after it, computes the sum of all N lacing values
\* as payload length and leaves the cursor at c + 27 + N + that sum; N = 0
\* gives payload 0 and cursor c + 27, the table 255, 10 gives payload 265.
C8_StepIsHeaderPlusTablePlusPayload ==
    \A i \in 1..Len(seg_sums) :
        LET c == visited[i]
            N == in_video[c + 27]
            lacing == SubSeq(in_video, c + 28, c + 27 + N)
        IN  /\ seg_sums[i] = SumSeq(lacing)
            /\ CursorAfter(i) = c + 27 + N + SumSeq(lacing)
            /\ N = 0 => (seg_sums[i] = 0 /\ CursorAfter(i) = c + 27)
            /\ lacing = <<255, 10>> => seg_sums[i] = 265

C8_Witness ==
    \E i \in 1..Len(seg_sums) :
        /\ SubSeq(in_video, visited[i] + 28, visited[i] + 27 + in_video[visited[i] + 27])
              = <<255, 10>>
        /\ seg_sums[i] = 265
        /\ i < Len(visited)

\* C9: two files of equal length that agree on every header and segment-table
\* byte and differ at most in payload bytes are scanned alike: the same
\* offsets visited, the same headers emitted, the same outcome.
C9_PayloadNeverRead ==
    /\ Len(other.in_video) = Len(in_video)
    /\ Len(other.visited) <= Len(visited)
    /\ Len(other.headers) <= Len(headers)
    /\ \A i \in 1..Len(other.visited) : other.visited[i] = visited[i]
    /\ \A i \in 1..Len(other.headers) : other.headers[i] = headers[i]
    /\ other.pc \in {"returned", "panicked"} =>
          /\ other.pc = pc
          /\ other.visited = visited
          /\ other.headers = headers
          /\ other.next_header_start = next_header_start

C9_Witness ==
    /\ other.pc = "returned"
    /\ other.in_video # in_video
    /\ Len(other.headers) >= 2

\* C10 as amended: every completed iteration moves the cursor on by at least
\* 27; an iteration that starts with fewer than 27 bytes left ends in a read
\* failure; an empty file gives no header and no read; the headers emitted
\* never exceed file length / 27 and the iterations that number plus one.
C10_ScanTerminates ==
    /\ \A i \in 1..Len(headers) : CursorAfter(i) >= visited[i] + 27
    /\ \A i \in 1..Len(visited) :
          visited[i] > Len(in_video) - 27 =>
              (i = Len(visited) /\ pc = "panicked" /\ Len(headers) = i - 1)
    /\ Len(in_video) = 0 =>
          (headers = <<>> /\ visited = <<>> /\ reads = 0 /\ pc # "panicked")
    /\ Len(headers) * 27 <= Len(in_video)
    /\ Len(visited) <= (Len(in_video) \div 27) + 1

C10_Witness ==
    /\ pc = "panicked"
    /\ Len(headers) >= 1
    /\ visited[Len(visited)] > Len(in_video) - 27
    /\ visited[Len(visited)] < Len(in_video)

\* C10 as stated: an iteration that starts at or beyond file length - 27, and
\* not at the file length, ends in a read failure.
C10_AsStated ==
    \A i \in 1..Len(visited) :
        (visited[i] >= Len(in_video) - 27 /\ visited[i] # Len(in_video)) =>
            (i = Len(visited) /\ pc = "panicked" /\ Len(headers) = i - 1)

----------------------------------------------------------------------------
(***************************************************************************)
(* Properties of the classifier and the selector.                          *)
(***************************************************************************)
KindOfFirstByte(b) ==
    CASE b = 1 -> "Vorbis"
      [] b = 79 -> "Opus"
      [] b = 128 -> "Theora"
      [] b = 83 -> "Speex"
      [] b = 102 -> "Skeleton"
      [] OTHER -> "Unknown"

MagicOfKind(k) ==
    CASE k = "Vorbis" -> vorbis_magic
      [] k = "Opus" -> opus_magic
      [] k = "Theora" -> theora_magic
      [] k = "Speex" -> speex_magic
      [] k = "Skeleton" -> skeleton_magic

SignatureLen(k) ==
    CASE k = "Vorbis" -> 7
      [] k = "Opus" -> 8
      [] k = "Theora" -> 7
      [] k = "Speex" -> 8
      [] k = "Skeleton" -> 8

HasPrefix(d, m) == Len(m) <= Len(d) /\ \A i \in 1..Len(m) : d[i] = m[i]

FullMatch(d) ==
    /\ Len(d) >= 1
    /\ KindOfFirstByte(d[1]) # "Unknown"
    /\ HasPrefix(d, MagicOfKind(KindOfFirstByte(d[1])))

\* C3: the classifier never fails; it returns (signature length, kind) of the
\* kind its first byte dispatches to exactly when that kind's whole signature
\* is a prefix of the input, and no match otherwise; the length it reports is
\* the length of the reported kind's signature (7, 8, 7, 8, 8).
C3_ClassifierMatchesFullMagic ==
    /\ mpc # "panicked"
    /\ mpc = "done" =>
          /\ FullMatch(pck_data) =>
                format = Some(<<SignatureLen(KindOfFirstByte(pck_data[1])),
                                KindOfFirstByte(pck_data[1])>>)
          /\ ~FullMatch(pck_data) => format = None
          /\ format # None =>
                /\ format[1][1] = SignatureLen(format[1][2])
                /\ format[1][1] = Len(MagicOfKind(format[1][2]))

C3_Witness ==
    /\ mpc = "done"
    /\ format = Some(<<8, "Skeleton">>)
    /\ Len(pck_data) > 8

IsTheora(bitstream) == bitstream # <<>> /\ HasPrefix(bitstream[1].data, theora_magic)

TheoraPositions == {i \in 1..Len(order) : IsTheora(bitstreams[order[i]])}

LastTheora == CHOOSE i \in TheoraPositions : \A j \in TheoraPositions : j <= i

\* C4: for any grouping the selector returns; it returns a group only if the
\* group's first packet is Theora, the last such group in iteration order
\* when there are several, and None exactly when no group is Theora.
C4_SelectsLastTheora ==
    spc \in {"returned", "panicked"} =>
        /\ (spc = "returned" /\ select_bitstream # None) =>
              /\ TheoraPositions # {}
              /\ select_bitstream = Some(bitstreams[order[LastTheora]])
        /\ (spc = "returned" /\ select_bitstream = None) <=> TheoraPositions = {}

\* C4 on the groupings in which every bitstream has a packet.
C4_OnNonEmptyBitstreams ==
    (\A s \in DOMAIN bitstreams : bitstreams[s] # <<>>) => C4_SelectsLastTheora

\* C5: the selector never fails, whatever the grouping.
C5_SelectorNeverFails == spc # "panicked"

====
